---- MODULE Spec2Model ----
(***************************************************************************)
(* pycamt: Camt053Parser (src/pycamt/parser.py).                           *)
(*                                                                         *)
(* The parsed XML document is an ordered tree of elements.  An element is  *)
(* a record [tag, text, Ccy, kids]: its local tag, its text, the value of  *)
(* its Ccy attribute and its children in document order.  A text is a      *)
(* sequence of strings: a sequence of one-character strings where the      *)
(* characters matter (remittance lines, balance amounts), a one-element    *)
(* sequence holding the whole token elsewhere.  Python's None is the       *)
(* distinguished text None.  lxml gives an element without character data  *)
(* the text None, never the empty string.                                  *)
(*                                                                         *)
(* The three public operations are the actions; each leaves its outcome    *)
(* (the returned value or the exception raised) in ret.                    *)
(***************************************************************************)
EXTENDS Integers, Sequences, FiniteSets, TLC

VARIABLES tree, ret

vars == <<tree, ret>>

(***************************************************************************)
(* Values                                                                  *)
(***************************************************************************)
None == <<"<None>">>

T(s) == <<s>>

Node(tag, text, ccy, kids) == [tag |-> tag, text |-> text, Ccy |-> ccy, kids |-> kids]

Leaf(tag, text) == Node(tag, text, None, <<>>)

Elem(tag, kids) == Node(tag, None, None, kids)

NoElement == Node("<no element>", None, None, <<>>)

IsNone(e) == e.tag = "<no element>"

Opt(present, e) == IF present THEN <<e>> ELSE <<>>

(***************************************************************************)
(* lxml ElementPath, restricted to the paths the parser uses: './/a//b'.   *)
(***************************************************************************)
RECURSIVE iterdescendants(_)
RECURSIVE iterkids(_, _)
iterkids(kids, i) ==
    IF i > Len(kids) THEN <<>>
    ELSE <<kids[i]>> \o iterdescendants(kids[i]) \o iterkids(kids, i + 1)

iterdescendants(elem) == iterkids(elem.kids, 1)

TagMatches(e, tag) == tag = "*" \/ e.tag = tag

RECURSIVE DescendStep(_, _, _)
DescendStep(elems, i, tag) ==
    IF i > Len(elems) THEN <<>>
    ELSE SelectSeq(iterdescendants(elems[i]), LAMBDA e : TagMatches(e, tag))
         \o DescendStep(elems, i + 1, tag)

RECURSIVE iterfind(_, _)
iterfind(elems, path) ==
    IF path = <<>> THEN elems
    ELSE iterfind(DescendStep(elems, 1, Head(path)), Tail(path))

findall(elem, path) == iterfind(<<elem>>, path)

find(elem, path) ==
    LET r == findall(elem, path) IN IF r = <<>> THEN NoElement ELSE r[1]

\* x.find(path).text if x.find(path) is not None else None
TextOrNone(elem, path) ==
    LET e == find(elem, path) IN IF IsNone(e) THEN None ELSE e.text

(***************************************************************************)
(* Python values: dicts, str.strip, str.join, outcomes of a call           *)
(***************************************************************************)
\* {**b, **a}: the first dict wins on a key both hold
Merge_KeepFirst(a, b) ==
    [k \in (DOMAIN a) \cup (DOMAIN b) |-> IF k \in DOMAIN a THEN a[k] ELSE b[k]]

Merge(a, b) ==
    [k \in (DOMAIN a) \cup (DOMAIN b) |-> IF k \in DOMAIN b THEN b[k] ELSE a[k]]

DropNone(d) == [k \in {x \in DOMAIN d : d[x] # None} |-> d[k]]

Returned(op, v) == [op |-> op, exc |-> "none", value |-> v]

Raised(op, e) == [op |-> op, exc |-> e, value |-> <<>>]

NotCalled == Returned("none", <<>>)

IsSpace(c) == c \in {" ", "\t", "\n"}

RECURSIVE lstrip(_)
lstrip(s) == IF s # <<>> /\ IsSpace(Head(s)) THEN lstrip(Tail(s)) ELSE s

RECURSIVE rstrip(_)
rstrip(s) ==
    IF s # <<>> /\ IsSpace(s[Len(s)]) THEN rstrip(SubSeq(s, 1, Len(s) - 1)) ELSE s

strip(s) == rstrip(lstrip(s))

RECURSIVE join(_, _)
join(sep, parts) ==
    IF parts = <<>> THEN <<>>
    ELSE IF Len(parts) = 1 THEN parts[1]
    ELSE parts[1] \o sep \o join(sep, Tail(parts))

Truthy(text) == text # None /\ text # <<>>

RECURSIVE Concat(_)
Concat(ss) == IF ss = <<>> THEN <<>> ELSE Head(ss) \o Concat(Tail(ss))

(***************************************************************************)
(* Camt053Parser                                                           *)
(***************************************************************************)
\* Outcome of _find_statements_or_reports: the containers, or <<>> when the
\* method raises Camt053ParseError.
StmtElements == findall(tree, <<"Stmt">>)

RptElements == findall(tree, <<"Rpt">>)

\* the same search with the two paths in the other order
_find_reports_or_statements ==
    IF Len(RptElements) # 0 THEN RptElements
    ELSE IF Len(StmtElements) # 0 THEN StmtElements
    ELSE <<>>

_find_statements_or_reports ==
    IF Len(StmtElements) # 0 THEN StmtElements
    ELSE IF Len(RptElements) # 0 THEN RptElements
    ELSE <<>>

_find_raises == Len(StmtElements) = 0 /\ Len(RptElements) = 0

\* ---- group header
_extract_group_header_raises(grp_hdr) ==
    \/ IsNone(find(grp_hdr, <<"MsgId">>))
    \/ IsNone(find(grp_hdr, <<"CreDtTm">>))

_extract_group_header(grp_hdr) ==
    [MessageID |-> find(grp_hdr, <<"MsgId">>).text,
     CreationDateTime |-> find(grp_hdr, <<"CreDtTm">>).text]

EmptyDict == [k \in {} |-> None]

get_group_header ==
    LET grp_hdr == find(tree, <<"GrpHdr">>) IN
    IF ~IsNone(grp_hdr)
    THEN IF _extract_group_header_raises(grp_hdr)
         THEN Raised("get_group_header", "AttributeError")
         ELSE Returned("get_group_header", _extract_group_header(grp_hdr))
    ELSE Returned("get_group_header", EmptyDict)

\* ---- entries
_parse_status(entry) ==
    IF ~IsNone(entry)
    THEN LET child_element == find(entry, <<"Cd">>) IN
         IF ~IsNone(child_element) THEN child_element.text ELSE entry.text
    ELSE None

\* The lookups of _extract_common_entry_data that dereference the element
\* found without testing it: a missing element raises AttributeError.
RequiredPaths ==
    {<<"AcctSvcrRef">>, <<"Amt">>, <<"CdtDbtInd">>, <<"BookgDt", "*">>, <<"ValDt", "*">>}

_extract_common_entry_data_raises(entry) ==
    \E path \in RequiredPaths : IsNone(find(entry, path))

_extract_common_entry_data(entry, statement) ==
    [TransactionID |-> find(entry, <<"AcctSvcrRef">>).text,
     AccountIBAN |-> TextOrNone(statement, <<"Acct", "Id", "IBAN">>),
     Amount |-> find(entry, <<"Amt">>).text,
     Currency |-> find(entry, <<"Amt">>).Ccy,
     CreditDebitIndicator |-> find(entry, <<"CdtDbtInd">>).text,
     ReversalIndicator |-> TextOrNone(entry, <<"RvslInd">>),
     Status |-> _parse_status(find(entry, <<"Sts">>)),
     BookingDate |-> find(entry, <<"BookgDt", "*">>).text,
     ValueDate |-> find(entry, <<"ValDt", "*">>).text,
     BankTransactionCode |-> TextOrNone(entry, <<"BkTxCd", "Domn", "Cd">>),
     TransactionFamilyCode |-> TextOrNone(entry, <<"BkTxCd", "Domn", "Fmly", "Cd">>),
     TransactionSubFamilyCode |->
         TextOrNone(entry, <<"BkTxCd", "Domn", "Fmly", "SubFmlyCd">>),
     AdditionalEntryInformation |-> TextOrNone(entry, <<"AddtlNtryInf">>)]

\* ---- transaction details
UstrdTexts(tx_detail) ==
    LET us == findall(tx_detail, <<"RmtInf", "Ustrd">>) IN
    [i \in 1..Len(us) |-> us[i].text]

\* " ".join(rinfo.text.strip() for rinfo in ... if rinfo.text)
JoinedUstrd(texts) ==
    LET kept == SelectSeq(texts, Truthy) IN
    join(<<" ">>, [i \in 1..Len(kept) |-> strip(kept[i])])

RemittanceInformationFull(tx_detail) ==
    IF findall(tx_detail, <<"RmtInf", "Ustrd">>) # <<>>
    THEN JoinedUstrd(UstrdTexts(tx_detail))
    ELSE None

DetailData(tx_detail) ==
    [EndToEndId |-> TextOrNone(tx_detail, <<"Refs", "EndToEndId">>),
     MandateId |-> TextOrNone(tx_detail, <<"Refs", "MndtId">>),
     Amount |-> TextOrNone(tx_detail, <<"Amt">>),
     CreditorName |-> TextOrNone(tx_detail, <<"RltdPties", "Cdtr", "Nm">>),
     CreditorIBAN |-> TextOrNone(tx_detail, <<"RltdPties", "CdtrAcct", "Id", "IBAN">>),
     DebtorName |-> TextOrNone(tx_detail, <<"RltdPties", "Dbtr", "Nm">>),
     DebtorIBAN |-> TextOrNone(tx_detail, <<"RltdPties", "DbtrAcct", "Id", "IBAN">>),
     PurposeCode |-> TextOrNone(tx_detail, <<"Purp", "Cd">>),
     RemittanceInformation |-> TextOrNone(tx_detail, <<"RmtInf", "Ustrd">>),
     RemittanceInformationFull |-> RemittanceInformationFull(tx_detail)]

\* a variant that overwrites RemittanceInformation only when the block has a
\* reference
StructuredData_KeepUnstructured(data, structured_remittance_elem) ==
    Merge(data,
          [RemittanceInformation |->
               IF IsNone(find(structured_remittance_elem, <<"CdtrRefInf", "Ref">>))
               THEN data.RemittanceInformation
               ELSE find(structured_remittance_elem, <<"CdtrRefInf", "Ref">>).text,
           AdditionalRemittanceInformation |->
               TextOrNone(structured_remittance_elem, <<"AddtlRmtInf">>)])

StructuredData(data, structured_remittance_elem) ==
    Merge(data,
          [RemittanceInformation |->
               TextOrNone(structured_remittance_elem, <<"CdtrRefInf", "Ref">>),
           AdditionalRemittanceInformation |->
               TextOrNone(structured_remittance_elem, <<"AddtlRmtInf">>)])

_extract_transaction_details(tx_detail) ==
    LET data == DetailData(tx_detail)
        structured_remittance_elem == find(tx_detail, <<"RmtInf", "Strd">>)
    IN  DropNone(IF ~IsNone(structured_remittance_elem)
                 THEN StructuredData(data, structured_remittance_elem)
                 ELSE data)

\* ---- fan-out
\* a variant that treats every non-empty grouping as 1-1
\* a variant that emits nothing for a grouping without TxDtls
DetailRecords_SkipEmpty(common_data, tx_details) ==
    [i \in 1..Len(tx_details) |->
        Merge(common_data, _extract_transaction_details(tx_details[i]))]

DetailRecords_FirstOnly(common_data, tx_details) ==
    IF Len(tx_details) = 0 THEN <<common_data>>
    ELSE <<Merge(common_data, _extract_transaction_details(tx_details[1]))>>

DetailRecords(common_data, tx_details) ==
    IF Len(tx_details) = 0 THEN <<common_data>>
    ELSE IF Len(tx_details) = 1
    THEN <<Merge(common_data, _extract_transaction_details(tx_details[1]))>>
    ELSE [i \in 1..Len(tx_details) |->
             Merge(common_data, _extract_transaction_details(tx_details[i]))]

\* a variant that emits nothing for an entry without NtryDtls
_extract_transaction_DetailsOnly(entry, statement) ==
    LET common_data == _extract_common_entry_data(entry, statement)
        entry_details == findall(entry, <<"NtryDtls">>)
    IN  Concat([g \in 1..Len(entry_details) |->
                   DetailRecords(common_data, findall(entry_details[g], <<"TxDtls">>))])

_extract_transaction(entry, statement) ==
    LET common_data == _extract_common_entry_data(entry, statement)
        entry_details == findall(entry, <<"NtryDtls">>)
    IN  IF entry_details = <<>> THEN <<common_data>>
        ELSE Concat([g \in 1..Len(entry_details) |->
                        DetailRecords(common_data,
                                      findall(entry_details[g], <<"TxDtls">>))])

\* a variant that looks the account up in the first container of the document
StatementTransactions_FirstAccount(statement) ==
    LET entries == findall(statement, <<"Ntry">>) IN
    Concat([e \in 1..Len(entries) |->
               _extract_transaction(entries[e], _find_statements_or_reports[1])])

\* a variant that walks the entries of a container from the last to the first
StatementTransactions_Reversed(statement) ==
    LET entries == findall(statement, <<"Ntry">>) IN
    Concat([e \in 1..Len(entries) |->
               _extract_transaction(entries[Len(entries) + 1 - e], statement)])

StatementTransactions(statement) ==
    LET entries == findall(statement, <<"Ntry">>) IN
    Concat([e \in 1..Len(entries) |-> _extract_transaction(entries[e], statement)])

StatementRaises(statement) ==
    LET entries == findall(statement, <<"Ntry">>) IN
    \E e \in 1..Len(entries) : _extract_common_entry_data_raises(entries[e])

get_transactions ==
    LET statements == _find_statements_or_reports IN
    IF _find_raises THEN Raised("get_transactions", "Camt053ParseError")
    ELSE IF \E s \in 1..Len(statements) : StatementRaises(statements[s])
    THEN Raised("get_transactions", "AttributeError")
    ELSE Returned("get_transactions",
                  Concat([s \in 1..Len(statements) |->
                             StatementTransactions(statements[s])]))

\* ---- statement summaries
\* float(text) over the characters 0-9 . + - and white space: the text
\* stripped, an optional sign, then digits with at most one point and at least
\* one digit.  Any other text makes float() raise ValueError.  (Exponents,
\* underscores, inf and nan need characters outside this alphabet.)
DigitChars == <<"0", "1", "2", "3", "4", "5", "6", "7", "8", "9">>

IsDigit(c) == \E i \in 1..Len(DigitChars) : DigitChars[i] = c

AllDigits(s) == \A i \in 1..Len(s) : IsDigit(s[i])

Unsigned(s) == IF s # <<>> /\ Head(s) \in {"+", "-"} THEN Tail(s) ELSE s

PointAt(s) ==
    IF \E i \in 1..Len(s) : s[i] = "."
    THEN CHOOSE i \in 1..Len(s) : s[i] = "." /\ \A j \in 1..(i - 1) : s[j] # "."
    ELSE Len(s) + 1

IntDigits(s) == SubSeq(Unsigned(strip(s)), 1, PointAt(Unsigned(strip(s))) - 1)

FracDigits(s) ==
    SubSeq(Unsigned(strip(s)), PointAt(Unsigned(strip(s))) + 1, Len(Unsigned(strip(s))))

IsNegative(s) == strip(s) # <<>> /\ Head(strip(s)) = "-"

ParsesAsFloat(s) ==
    /\ AllDigits(IntDigits(s))
    /\ AllDigits(FracDigits(s))
    /\ Len(IntDigits(s)) + Len(FracDigits(s)) > 0

RECURSIVE StripLeadingZeros(_)
StripLeadingZeros(d) ==
    IF d # <<>> /\ Head(d) = "0" THEN StripLeadingZeros(Tail(d)) ELSE d

RECURSIVE StripTrailingZeros(_)
StripTrailingZeros(d) ==
    IF d # <<>> /\ d[Len(d)] = "0"
    THEN StripTrailingZeros(SubSeq(d, 1, Len(d) - 1))
    ELSE d

TwoDigits(n) == <<DigitChars[(n \div 10) + 1], DigitChars[(n % 10) + 1]>>

\* repr of a float given by its sign and decimal digits (shortest repr; exact
\* for values of at most 15 significant digits below 1e16): fixed notation
\* with at least one fractional digit, exponent notation below 1e-4.
FloatRepr(negative, intDigits, fracDigits) ==
    LET ip == StripLeadingZeros(intDigits)
        fp == StripTrailingZeros(fracDigits)
        sign == IF negative THEN <<"-">> ELSE <<>>
        sig == StripLeadingZeros(fp)
        zeros == Len(fp) - Len(sig)
    IN  IF ip = <<>> /\ fp # <<>> /\ zeros >= 4
        THEN sign \o <<Head(sig)>>
             \o (IF Len(sig) > 1 THEN <<".">> \o Tail(sig) ELSE <<>>)
             \o <<"e", "-">> \o TwoDigits(zeros + 1)
        ELSE sign \o (IF ip = <<>> THEN <<"0">> ELSE ip) \o <<".">>
             \o (IF fp = <<>> THEN <<"0">> ELSE fp)

\* with contextlib.suppress(ValueError): amount_text = str(-float(amount_text))
NegatedAmount(amount_text) ==
    IF ParsesAsFloat(amount_text)
    THEN FloatRepr(~IsNegative(amount_text), IntDigits(amount_text),
                   FracDigits(amount_text))
    ELSE amount_text

SignedAmount(amount_text, cdt_dbt_indicator) ==
    IF Truthy(amount_text) /\ cdt_dbt_indicator = <<"DBIT">>
    THEN NegatedAmount(amount_text)
    ELSE amount_text

\* a variant that prefers the plain date to the date-time
BalanceDate_DatePreferred(balance_elem) ==
    LET date_elem == find(balance_elem, <<"Dt", "Dt">>) IN
    IF ~IsNone(date_elem) THEN date_elem.text
    ELSE TextOrNone(balance_elem, <<"Dt", "DtTm">>)

BalanceDate(balance_elem) ==
    LET date_time_elem == find(balance_elem, <<"Dt", "DtTm">>) IN
    IF ~IsNone(date_time_elem) THEN date_time_elem.text
    ELSE TextOrNone(balance_elem, <<"Dt", "Dt">>)

\* a variant that keeps the first balance of a type
StoreBalance_FirstWins(result, balance_elem) ==
    LET balance_type == TextOrNone(balance_elem, <<"Tp", "CdOrPrtry", "Cd">>)
        amount_text == SignedAmount(TextOrNone(balance_elem, <<"Amt">>),
                                    TextOrNone(balance_elem, <<"CdtDbtInd">>))
        date_text == BalanceDate(balance_elem)
    IN  IF balance_type = <<"OPBD">> /\ result.OpeningBalance = None
        THEN [result EXCEPT !.OpeningBalance = amount_text,
                            !.OpeningBalanceDate = date_text]
        ELSE IF balance_type = <<"CLBD">> /\ result.ClosingBalance = None
        THEN [result EXCEPT !.ClosingBalance = amount_text,
                            !.ClosingBalanceDate = date_text]
        ELSE result

StoreBalance(result, balance_elem) ==
    LET balance_type == TextOrNone(balance_elem, <<"Tp", "CdOrPrtry", "Cd">>)
        amount_text == SignedAmount(TextOrNone(balance_elem, <<"Amt">>),
                                    TextOrNone(balance_elem, <<"CdtDbtInd">>))
        date_text == BalanceDate(balance_elem)
    IN  IF balance_type = <<"OPBD">>
        THEN [result EXCEPT !.OpeningBalance = amount_text,
                            !.OpeningBalanceDate = date_text]
        ELSE IF balance_type = <<"CLBD">>
        THEN [result EXCEPT !.ClosingBalance = amount_text,
                            !.ClosingBalanceDate = date_text]
        ELSE result

RECURSIVE StoreBalances(_, _, _)
StoreBalances(result, balance_elements, i) ==
    IF i > Len(balance_elements) THEN result
    ELSE StoreBalances(StoreBalance(result, balance_elements[i]), balance_elements, i + 1)

StatementSummary(stmt) ==
    StoreBalances([IBAN |-> TextOrNone(stmt, <<"Acct", "Id", "IBAN">>),
                   Currency |-> TextOrNone(stmt, <<"Acct", "Ccy">>),
                   OpeningBalance |-> None,
                   ClosingBalance |-> None,
                   OpeningBalanceDate |-> None,
                   ClosingBalanceDate |-> None],
                  findall(stmt, <<"Bal">>), 1)

\* a variant that summarises the first container only
get_statement_info_FirstOnly ==
    LET statements == _find_statements_or_reports IN
    IF _find_raises THEN Raised("get_statement_info", "Camt053ParseError")
    ELSE Returned("get_statement_info", <<StatementSummary(statements[1])>>)

get_statement_info ==
    LET statements == _find_statements_or_reports IN
    IF _find_raises THEN Raised("get_statement_info", "Camt053ParseError")
    ELSE Returned("get_statement_info",
                  [s \in 1..Len(statements) |-> StatementSummary(statements[s])])

(***************************************************************************)
(* Documents.  The shapes follow the fixtures of src/tests: a Document     *)
(* holding a message with an optional GrpHdr and the Stmt / Rpt            *)
(* containers; a container holds Acct, Bal* and Ntry*; an entry holds its  *)
(* own fields and NtryDtls*; an NtryDtls holds Btch and TxDtls*.           *)
(***************************************************************************)
MaxGrp == 2

MaxTx == 2

MaxContainers == 2

MaxBals == 2

MaxLines == 3

Id(prefix, ns) == <<prefix>> \o [i \in 1..Len(ns) |-> ToString(ns[i])]

\* -- TxDtls: t = [amt, pty, ustrd, strd]
StrdElement(kind) ==
    Elem("Strd",
         Opt(kind \in {"ref", "both", "refnulladdtl"},
             Elem("CdtrRefInf", <<Leaf("Ref", T("REF1"))>>))
         \o Opt(kind \in {"nullref", "nullrefaddtl"},
                Elem("CdtrRefInf", <<Leaf("Ref", None)>>))
         \o Opt(kind \in {"addtl", "both", "nullrefaddtl"},
                Leaf("AddtlRmtInf", T("invoice 7")))
         \o Opt(kind \in {"nulladdtl", "refnulladdtl"}, Leaf("AddtlRmtInf", None)))

RmtInfElement(ustrd, strd) ==
    Elem("RmtInf",
         [i \in 1..Len(ustrd) |-> Leaf("Ustrd", ustrd[i])]
         \o Opt(strd # "none", StrdElement(strd)))

TxDtlsElement(ns, t) ==
    Elem("TxDtls",
         <<Elem("Refs", <<Leaf("EndToEndId", Id("E2E", ns))>>)>>
         \o Opt(t.amt = "direct", Node("Amt", T("123.2"), T("CHF"), <<>>))
         \o Opt(t.amt = "null", Node("Amt", None, T("CHF"), <<>>))
         \o Opt(t.amt = "nested",
                Elem("AmtDtls",
                     <<Elem("TxAmt", <<Node("Amt", T("77.00"), T("USD"), <<>>)>>)>>))
         \o Opt(t.pty,
                Elem("RltdPties",
                     <<Elem("Cdtr", <<Leaf("Nm", T("Donald Duck"))>>),
                       Elem("CdtrAcct", <<Elem("Id", <<Leaf("IBAN", T("DE00CDTR"))>>)>>)>>))
         \o Opt(t.ustrd # <<>> \/ t.strd # "none", RmtInfElement(t.ustrd, t.strd)))

BtchElement ==
    Elem("Btch",
         <<Leaf("NbOfTxs", T("1")),
           Node("TtlAmt", T("12345.678"), T("CHF"), <<>>),
           Leaf("CdtDbtInd", T("DBIT"))>>)

NtryDtlsElement(ns, txs) ==
    Elem("NtryDtls",
         Opt(txs = <<>>, BtchElement)
         \o [t \in 1..Len(txs) |-> TxDtlsElement(ns \o <<t>>, txs[t])])

\* -- Ntry: f = [ref, amt, cdi, bookg, val, rvsl, sts, btc, addtl]
DateElement(tag, kind, day) ==
    Elem(tag,
         Opt(kind \in {"Dt", "both"}, Leaf("Dt", T(day)))
         \o Opt(kind \in {"DtTm", "both"}, Leaf("DtTm", <<day, "T18:56:25">>))
         \o Opt(kind = "null", Leaf("Dt", None)))

BkTxCdElement(kind) ==
    Elem("BkTxCd",
         <<Elem("Domn",
                Opt(kind = "full", Leaf("Cd", T("PMNT")))
                \o <<Elem("Fmly",
                          Opt(kind \in {"full", "fmly"}, Leaf("Cd", T("RCDT")))
                          \o Opt(kind \in {"full", "sub"}, Leaf("SubFmlyCd", T("SALA"))))>>)>>)

StsElement(kind) ==
    IF kind = "code" THEN Elem("Sts", <<Leaf("Cd", T("BOOK"))>>)
    ELSE IF kind = "text" THEN Leaf("Sts", T("PDNG"))
    ELSE Leaf("Sts", None)

NtryElement(ns, f, groups) ==
    Elem("Ntry",
         Opt(f.amt = "val", Node("Amt", T("500.00"), T("EUR"), <<>>))
         \o Opt(f.amt = "noccy", Leaf("Amt", T("500.00")))
         \o Opt(f.cdi, Leaf("CdtDbtInd", T("CRDT")))
         \o Opt(f.rvsl, Leaf("RvslInd", T("false")))
         \o Opt(f.sts # "none", StsElement(f.sts))
         \o Opt(f.bookg # "none", DateElement("BookgDt", f.bookg, "2020-06-23"))
         \o Opt(f.val # "none", DateElement("ValDt", f.val, "2020-06-24"))
         \o Opt(f.ref = "val", Leaf("AcctSvcrRef", Id("REF", ns)))
         \o Opt(f.ref = "null", Leaf("AcctSvcrRef", None))
         \o Opt(f.btc # "none", BkTxCdElement(f.btc))
         \o [g \in 1..Len(groups) |-> NtryDtlsElement(ns \o <<g>>, groups[g])]
         \o Opt(f.addtl, Leaf("AddtlNtryInf", T("salary"))))

FullFields ==
    [ref |-> "val", amt |-> "val", cdi |-> TRUE, bookg |-> "Dt", val |-> "Dt",
     rvsl |-> TRUE, sts |-> "code", btc |-> "full", addtl |-> TRUE]

MinimalFields ==
    [ref |-> "val", amt |-> "val", cdi |-> TRUE, bookg |-> "Dt", val |-> "DtTm",
     rvsl |-> FALSE, sts |-> "none", btc |-> "none", addtl |-> FALSE]

FieldProfiles ==
    {FullFields, MinimalFields}
    \cup {[FullFields EXCEPT !.ref = x] : x \in {"null", "none"}}
    \cup {[MinimalFields EXCEPT !.amt = x] : x \in {"noccy", "none"}}
    \cup {[FullFields EXCEPT !.cdi = FALSE], [MinimalFields EXCEPT !.cdi = FALSE]}
    \cup {[FullFields EXCEPT !.bookg = x] : x \in {"DtTm", "both", "null", "empty", "none"}}
    \cup {[MinimalFields EXCEPT !.val = x] : x \in {"Dt", "empty", "none"}}
    \cup {[MinimalFields EXCEPT !.rvsl = TRUE], [MinimalFields EXCEPT !.addtl = TRUE]}
    \cup {[MinimalFields EXCEPT !.sts = x] : x \in {"code", "text", "null"}}
    \cup {[MinimalFields EXCEPT !.btc = x] : x \in {"full", "fmly", "sub", "empty"}}

\* -- Bal: b = [tp, amt, ind, date]
BalElement(b) ==
    Elem("Bal",
         Opt(b.tp # None, Elem("Tp", <<Elem("CdOrPrtry", <<Leaf("Cd", b.tp)>>)>>))
         \o Opt(b.amt # <<"absent">>, Node("Amt", b.amt, T("EUR"), <<>>))
         \o Opt(b.ind # None, Leaf("CdtDbtInd", b.ind))
         \o Opt(b.date # "none", DateElement("Dt", b.date, "2025-07-31")))

\* -- Stmt / Rpt
ContainerElement(tag, c, acct, bals, entries) ==
    Elem(tag,
         Opt(acct # "none",
             Elem("Acct",
                  Opt(acct \in {"iban", "both"},
                      Elem("Id", <<Leaf("IBAN", Id("GB33BUKB", <<c>>))>>))
                  \o Opt(acct \in {"ccy", "both"}, Leaf("Ccy", T("CHF")))))
         \o [b \in 1..Len(bals) |-> BalElement(bals[b])]
         \o entries)

\* -- GrpHdr
GrpHdrElements(kind) ==
    IF kind = "none" THEN <<>>
    ELSE <<Elem("GrpHdr",
                Opt(kind \in {"full", "two", "noCreDtTm"}, Leaf("MsgId", T("ABC123")))
                \o Opt(kind = "nullMsgId", Leaf("MsgId", None))
                \o Opt(kind \in {"full", "two", "noMsgId", "nullMsgId"},
                       Leaf("CreDtTm", T("2020-06-23T18:56:25.64Z")))
                \o Opt(kind = "full",
                       Elem("MsgPgntn", <<Leaf("PgNb", T("1"))>>)))>>
         \o Opt(kind = "two",
                Elem("GrpHdr", <<Leaf("MsgId", T("XYZ789")),
                                 Leaf("CreDtTm", T("2021-01-01T00:00:00"))>>))

HdrKinds == {"none", "full", "two", "noMsgId", "noCreDtTm", "nullMsgId", "empty"}

\* -- Document: d = [layout, hdr, acct, bals, sib, fields, groups]
PlainTx == [amt |-> "direct", pty |-> TRUE, ustrd |-> <<T("pay")>>, strd |-> "none"]

DefaultBal == [tp |-> T("OPBD"), amt |-> T("1000.00"), ind |-> None, date |-> "Dt"]

FirstEntries(d) ==
    Opt(d.sib, NtryElement(<<1, 0>>, FullFields, <<<<PlainTx>>>>))
    \o <<NtryElement(<<1, 1>>, d.fields, d.groups)>>
    \o Opt(d.sib, NtryElement(<<1, 2>>, MinimalFields, <<>>))

OtherEntries(c) == <<NtryElement(<<c, 1>>, MinimalFields, <<<<PlainTx, PlainTx>>>>)>>

Document(d) ==
    Elem("Document",
         <<Elem("BkToCstmrStmt",
                GrpHdrElements(d.hdr)
                \o [c \in 1..Len(d.layout) |->
                       IF c = 1
                       THEN ContainerElement(d.layout[c], c, d.acct, d.bals, FirstEntries(d))
                       ELSE ContainerElement(d.layout[c], c, "iban", <<DefaultBal>>,
                                             OtherEntries(c))])>>)

DefaultDocument ==
    [layout |-> <<"Stmt">>, hdr |-> "full", acct |-> "iban", bals |-> <<DefaultBal>>,
     sib |-> FALSE, fields |-> FullFields, groups |-> <<<<PlainTx>>>>]

\* -- the fan-out shapes: groupings of 0..MaxTx details, the details' kinds
\* rotating over TxKinds
TxKinds ==
    <<PlainTx,
      [amt |-> "none", pty |-> FALSE, ustrd |-> <<>>, strd |-> "none"],
      [amt |-> "nested", pty |-> FALSE, ustrd |-> <<T("x"), T("y")>>, strd |-> "ref"],
      [amt |-> "null", pty |-> TRUE, ustrd |-> <<>>, strd |-> "addtl"]>>

CountSeqs == UNION {[1..n -> 0..MaxTx] : n \in 0..MaxGrp}

Groups(counts, rot) ==
    [g \in 1..Len(counts) |->
        [t \in 1..counts[g] |-> TxKinds[((g + t + rot) % Len(TxKinds)) + 1]]]

FanDocuments ==
    {[DefaultDocument EXCEPT !.sib = sib, !.fields = f, !.groups = Groups(counts, rot)] :
        sib \in BOOLEAN, f \in {FullFields, MinimalFields},
        counts \in CountSeqs, rot \in 1..Len(TxKinds)}
    \cup
    {[DefaultDocument EXCEPT !.sib = sib, !.fields = f, !.acct = acct,
                             !.groups = Groups(counts, rot)] :
        sib \in BOOLEAN, f \in FieldProfiles, acct \in {"iban", "none"},
        counts \in {<<>>, <<0>>, <<1>>, <<2>>}, rot \in 1..Len(TxKinds)}

Layouts == UNION {[1..n -> {"Stmt", "Rpt"}] : n \in 0..MaxContainers}

LayoutDocuments ==
    {[DefaultDocument EXCEPT !.layout = l, !.hdr = h, !.acct = acct] :
        l \in Layouts, h \in HdrKinds, acct \in {"iban", "both", "none"}}

\* -- remittance shapes: one TxDtls with 0..MaxLines Ustrd lines and every
\* kind of Strd block, alone in its grouping or after another TxDtls
UstrdLineTexts ==
    {None, <<"a">>, <<"b">>, <<"c">>, <<" ">>, <<" ", "x", " ", " ">>}

UstrdLines(n) == UNION {[1..k -> UstrdLineTexts] : k \in 0..n}

StrdKinds ==
    {"none", "empty", "ref", "addtl", "both", "nullref", "nulladdtl", "refnulladdtl",
     "nullrefaddtl"}

RmtTx(lines, strd) == [amt |-> "none", pty |-> FALSE, ustrd |-> lines, strd |-> strd]

RmtDocuments ==
    {[DefaultDocument EXCEPT !.groups = <<pre \o <<RmtTx(lines, strd)>>>>] :
        pre \in {<<>>, <<PlainTx>>}, lines \in UstrdLines(MaxLines),
        strd \in {"none", "ref"}}
    \cup
    {[DefaultDocument EXCEPT !.groups = <<pre \o <<RmtTx(lines, strd)>>>>] :
        pre \in {<<>>, <<PlainTx>>}, lines \in UstrdLines(2), strd \in StrdKinds}

\* -- balance shapes: one Bal node of every type, amount, indicator and date
AmountTexts ==
    {None, <<"absent">>,
     <<"1", "0", "0", ".", "0", "0">>, <<"a", "b", "c">>, <<"1", ".", "5">>,
     <<"-", "2", ".", "5", "0">>, <<"0">>, <<"+", "3">>, <<".", "5">>,
     <<"0", "0", "7">>, <<"1", ".", "2", ".", "3">>, <<"-">>,
     <<"0", ".", "0", "0", "0", "0", "1", "2">>, <<" ", "4", "2", " ">>}

BalShapes ==
    [tp : {None, <<"OPBD">>, <<"CLBD">>, <<"PRCD">>},
     amt : AmountTexts,
     ind : {None, <<"CRDT">>, <<"DBIT">>},
     date : {"none", "Dt", "DtTm", "both"}]

BalDocuments ==
    {[DefaultDocument EXCEPT !.bals = <<b>>, !.layout = l] :
        b \in BalShapes, l \in {<<"Stmt">>, <<"Rpt", "Rpt">>}}

\* -- summary shapes: 0..MaxBals Bal nodes in the first container, each of
\* every type and with one of four distinguishable (amount, indicator, date)
\* contents; and every layout with every kind of Acct node
BalContents ==
    {[amt |-> <<"1", "0", "0", ".", "0", "0">>, ind |-> <<"CRDT">>, date |-> "Dt"],
     [amt |-> <<"1", ".", "5">>, ind |-> <<"DBIT">>, date |-> "DtTm"],
     [amt |-> <<"absent">>, ind |-> None, date |-> "none"],
     [amt |-> <<"a", "b", "c">>, ind |-> <<"DBIT">>, date |-> "both"]}

SummaryBals ==
    {[tp |-> tp, amt |-> k.amt, ind |-> k.ind, date |-> k.date] :
        tp \in {None, <<"OPBD">>, <<"CLBD">>, <<"PRCD">>}, k \in BalContents}

BalSeqs == UNION {[1..n -> SummaryBals] : n \in 0..MaxBals}

SummaryDocuments ==
    {[DefaultDocument EXCEPT !.bals = bs, !.acct = "both"] : bs \in BalSeqs}
    \cup
    {[DefaultDocument EXCEPT !.layout = l, !.acct = acct, !.bals = bs] :
        l \in Layouts, acct \in {"none", "iban", "ccy", "both"},
        bs \in {<<>>, <<DefaultBal>>, <<[DefaultBal EXCEPT !.tp = <<"CLBD">>]>>}}

\* -- ordering shapes: every layout of containers, the first container's
\* entry under test with every fan-out shape, alone or between two entries
OrderDocuments ==
    {[DefaultDocument EXCEPT !.layout = l, !.sib = sib, !.groups = Groups(counts, rot)] :
        l \in Layouts, sib \in BOOLEAN, counts \in CountSeqs, rot \in {1, 2}}

(***************************************************************************)
(* The state machine: a parser constructed on a document, and its three    *)
(* operations, callable independently and repeatedly.                      *)
(***************************************************************************)
InitWith(documents) ==
    /\ \E d \in documents : tree = Document(d)
    /\ ret = NotCalled

Init == InitWith(FanDocuments)

InitLayout == InitWith(LayoutDocuments)

InitRmt == InitWith(RmtDocuments)

InitBal == InitWith(BalDocuments)

InitOrder == InitWith(OrderDocuments)

InitSummary == InitWith(SummaryDocuments)

GetGroupHeader ==
    /\ ret' = get_group_header
    /\ UNCHANGED tree

GetTransactions ==
    /\ ret' = get_transactions
    /\ UNCHANGED tree

GetStatementInfo ==
    /\ ret' = get_statement_info
    /\ UNCHANGED tree

Next == GetGroupHeader \/ GetTransactions \/ GetStatementInfo

Spec == Init /\ [][Next]_vars

SpecLayout == InitLayout /\ [][Next]_vars

SpecRmt == InitRmt /\ [][Next]_vars

SpecBal == InitBal /\ [][Next]_vars

SpecOrder == InitOrder /\ [][Next]_vars

SpecSummary == InitSummary /\ [][Next]_vars

(***************************************************************************)
(* Reading the document and the outcome, for the properties below.         *)
(* The properties walk the document child by child, following the shapes   *)
(* above, and do not use the parser's own lookups.                         *)
(***************************************************************************)
Kids(e, tag) == SelectSeq(e.kids, LAMBDA k : k.tag = tag)

HasKid(e, tag) == Kids(e, tag) # <<>>

Kid(e, tag) == Kids(e, tag)[1]

KidText(e, tag) == IF HasKid(e, tag) THEN Kid(e, tag).text ELSE None

Range(q) == {q[i] : i \in 1..Len(q)}

DocStmts == Kids(tree.kids[1], "Stmt")

DocRpts == Kids(tree.kids[1], "Rpt")

DocContainers == DocStmts \o DocRpts

ExpectedContainers == IF DocStmts # <<>> THEN DocStmts ELSE DocRpts

DocEntries == Concat([c \in 1..Len(DocContainers) |-> Kids(DocContainers[c], "Ntry")])

ReturnedFrom(op) == ret.op = op /\ ret.exc = "none"

RecordsWhere(key, values) ==
    SelectSeq(ret.value, LAMBDA r : key \in DOMAIN r /\ r[key] \in values)

EntryRecords(entry) == RecordsWhere("TransactionID", {KidText(entry, "AcctSvcrRef")})

TxId(tx) == Kid(Kid(tx, "Refs"), "EndToEndId").text

\* r is c with exactly the keys of d laid over it
Overrides(r, c, d) ==
    /\ DOMAIN r = (DOMAIN c) \cup (DOMAIN d)
    /\ \A k \in DOMAIN d : r[k] = d[k]
    /\ \A k \in (DOMAIN c) \ (DOMAIN d) : r[k] = c[k]

C1_FanOutHolds(c, e, g) ==
    LET txs == Kids(g, "TxDtls")
        recs == RecordsWhere("EndToEndId", {TxId(txs[i]) : i \in 1..Len(txs)})
    IN  Len(txs) >= 2 =>
            /\ Len(recs) = Len(txs)
            /\ \A i \in 1..Len(txs) :
                  /\ recs[i].EndToEndId = TxId(txs[i])
                  /\ Overrides(recs[i], _extract_common_entry_data(e, c),
                               _extract_transaction_details(txs[i]))

(***************************************************************************)
(* C1.  An entry's detail grouping (NtryDtls) holding n >= 2 transaction   *)
(* details (TxDtls) yields exactly n records, one per TxDtls in document   *)
(* order, each the entry's common record with only the keys extracted from *)
(* its own TxDtls laid over it.                                            *)
(***************************************************************************)
C1_FanOut ==
    ReturnedFrom("get_transactions") =>
        \A c \in Range(DocContainers) : \A e \in Range(Kids(c, "Ntry")) :
            \A g \in Range(Kids(e, "NtryDtls")) : C1_FanOutHolds(c, e, g)

C1_Witness ==
    /\ ReturnedFrom("get_transactions")
    /\ \E e \in Range(DocEntries) : \E g \in Range(Kids(e, "NtryDtls")) :
          /\ Len(Kids(g, "TxDtls")) >= 2
          /\ Len(Kids(e, "NtryDtls")) >= 2
    /\ Len(DocEntries) >= 2

(***************************************************************************)
(* C2.  An entry without any NtryDtls yields exactly one record, the       *)
(* entry's common record unmodified.                                       *)
(***************************************************************************)
C2_NoGrouping ==
    ReturnedFrom("get_transactions") =>
        \A c \in Range(DocContainers) : \A e \in Range(Kids(c, "Ntry")) :
            ~HasKid(e, "NtryDtls") =>
                EntryRecords(e) = <<_extract_common_entry_data(e, c)>>

C2_Witness ==
    /\ ReturnedFrom("get_transactions")
    /\ Len(ret.value) >= 3
    /\ \E e \in Range(DocEntries) : ~HasKid(e, "NtryDtls") /\ Len(EntryRecords(e)) = 1

\* the amount of a TxDtls: its Amt child, else the Amt of AmtDtls/TxAmt
DetailAmount(tx) ==
    IF HasKid(tx, "Amt") THEN Kid(tx, "Amt").text
    ELSE IF HasKid(tx, "AmtDtls") THEN Kid(Kid(Kid(tx, "AmtDtls"), "TxAmt"), "Amt").text
    ELSE None

OneToOne(e) ==
    /\ Len(Kids(e, "NtryDtls")) = 1
    /\ Len(Kids(Kid(e, "NtryDtls"), "TxDtls")) = 1

(***************************************************************************)
(* C3.  An entry whose single NtryDtls holds exactly one TxDtls yields     *)
(* exactly one record; its Amount is the detail's amount when the detail   *)
(* has one, otherwise the entry's own amount.                              *)
(***************************************************************************)
C3_OneToOne ==
    ReturnedFrom("get_transactions") =>
        \A e \in Range(DocEntries) :
            OneToOne(e) =>
                LET tx == Kid(Kid(e, "NtryDtls"), "TxDtls") IN
                /\ Len(EntryRecords(e)) = 1
                /\ EntryRecords(e)[1].Amount =
                       IF DetailAmount(tx) # None THEN DetailAmount(tx)
                       ELSE KidText(e, "Amt")

C3_Witness ==
    /\ ReturnedFrom("get_transactions")
    /\ \E e \in Range(DocEntries) :
          /\ OneToOne(e) /\ HasKid(e, "Amt")
          /\ DetailAmount(Kid(Kid(e, "NtryDtls"), "TxDtls")) = <<"77.00">>
          /\ EntryRecords(e)[1].Amount # KidText(e, "Amt")

C3_WitnessNoDetailAmount ==
    /\ ReturnedFrom("get_transactions")
    /\ \E e \in Range(DocEntries) :
          /\ OneToOne(e) /\ HasKid(e, "Amt")
          /\ DetailAmount(Kid(Kid(e, "NtryDtls"), "TxDtls")) = None
          /\ EntryRecords(e)[1].Amount = <<"500.00">>

(***************************************************************************)
(* C4.  Sparse-dictionary invariant: no record of get_transactions stores  *)
(* a key with an absent (None) value.                                      *)
(***************************************************************************)
C4_Sparse ==
    ReturnedFrom("get_transactions") =>
        \A i \in 1..Len(ret.value) : \A k \in DOMAIN ret.value[i] :
            ret.value[i][k] # None

DocTxDtls ==
    Concat([e \in 1..Len(DocEntries) |->
        Concat([g \in 1..Len(Kids(DocEntries[e], "NtryDtls")) |->
            Kids(Kids(DocEntries[e], "NtryDtls")[g], "TxDtls")])])

TxRecord(tx) == RecordsWhere("EndToEndId", {TxId(tx)})[1]

LineTexts(tx) ==
    IF HasKid(tx, "RmtInf")
    THEN [i \in 1..Len(Kids(Kid(tx, "RmtInf"), "Ustrd")) |->
             Kids(Kid(tx, "RmtInf"), "Ustrd")[i].text]
    ELSE <<>>

HasStrd(tx) == HasKid(tx, "RmtInf") /\ HasKid(Kid(tx, "RmtInf"), "Strd")

Trimmed(text) == IF text = None THEN <<>> ELSE strip(text)

TrimmedNonEmpty(lines) ==
    SelectSeq([i \in 1..Len(lines) |-> Trimmed(lines[i])], LAMBDA l : l # <<>>)

(***************************************************************************)
(* C5.  RemittanceInformationFull of a TxDtls is the texts of all its      *)
(* Ustrd lines, each trimmed, only the lines non-empty after trimming      *)
(* kept, joined by one space in document order; the key is absent when     *)
(* there are no lines.  RemittanceInformation is the untrimmed text of the *)
(* first line.                                                             *)
(***************************************************************************)
C5_RemittanceFull ==
    ReturnedFrom("get_transactions") =>
        \A tx \in Range(DocTxDtls) :
            LET r == TxRecord(tx)
                lines == LineTexts(tx)
            IN  /\ lines = <<>> => "RemittanceInformationFull" \notin DOMAIN r
                /\ lines # <<>> =>
                      /\ "RemittanceInformationFull" \in DOMAIN r
                      /\ r.RemittanceInformationFull = join(<<" ">>, TrimmedNonEmpty(lines))
                /\ (lines # <<>> /\ lines[1] # None /\ ~HasStrd(tx)) =>
                      /\ "RemittanceInformation" \in DOMAIN r
                      /\ r.RemittanceInformation = lines[1]

StrdRef(tx) ==
    LET strd == Kid(Kid(tx, "RmtInf"), "Strd") IN
    IF HasKid(strd, "CdtrRefInf") THEN KidText(Kid(strd, "CdtrRefInf"), "Ref") ELSE None

StrdAddtl(tx) == KidText(Kid(Kid(tx, "RmtInf"), "Strd"), "AddtlRmtInf")

HasAddtlChild(tx) == HasKid(Kid(Kid(tx, "RmtInf"), "Strd"), "AddtlRmtInf")

HasKey(r, k, v) == IF v = None THEN k \notin DOMAIN r ELSE k \in DOMAIN r /\ r[k] = v

WithoutStrd(tx) ==
    [tx EXCEPT !.kids =
        [i \in 1..Len(tx.kids) |->
            IF tx.kids[i].tag = "RmtInf"
            THEN [tx.kids[i] EXCEPT !.kids = Kids(tx.kids[i], "Ustrd")]
            ELSE tx.kids[i]]]

FullOf(r) ==
    IF "RemittanceInformationFull" \in DOMAIN r THEN r.RemittanceInformationFull ELSE None

(***************************************************************************)
(* C6.  For a TxDtls with a structured remittance block (RmtInf/Strd),     *)
(* whatever its Ustrd lines: RemittanceInformation is the text of the      *)
(* block's creditor reference, the key absent when there is no such text;  *)
(* AdditionalRemittanceInformation is present exactly when the block has a *)
(* free-text child (AddtlRmtInf) that has text, and is that text;          *)
(* RemittanceInformationFull is what it would be without the block.        *)
(***************************************************************************)
C6_Structured ==
    ReturnedFrom("get_transactions") =>
        \A tx \in Range(DocTxDtls) :
            HasStrd(tx) =>
                LET r == TxRecord(tx) IN
                /\ HasKey(r, "RemittanceInformation", StrdRef(tx))
                /\ HasKey(r, "AdditionalRemittanceInformation", StrdAddtl(tx))
                /\ FullOf(r) = FullOf(_extract_transaction_details(WithoutStrd(tx)))

C6_Witness ==
    /\ ReturnedFrom("get_transactions")
    /\ \E tx \in Range(DocTxDtls) :
          /\ HasStrd(tx) /\ Len(LineTexts(tx)) = 2 /\ LineTexts(tx)[1] = <<"a">>
          /\ StrdRef(tx) = None
          /\ "RemittanceInformation" \notin DOMAIN TxRecord(tx)
          /\ "RemittanceInformationFull" \in DOMAIN TxRecord(tx)

C6_WitnessRef ==
    /\ ReturnedFrom("get_transactions")
    /\ \E tx \in Range(DocTxDtls) :
          /\ HasStrd(tx) /\ LineTexts(tx) # <<>> /\ LineTexts(tx)[1] # None
          /\ TxRecord(tx).RemittanceInformation = <<"REF1">>
          /\ "AdditionalRemittanceInformation" \notin DOMAIN TxRecord(tx)

\* C6 as stated: as above, but AdditionalRemittanceInformation is present
\* exactly when the block has the free-text child, with or without text
C6_AsStated ==
    ReturnedFrom("get_transactions") =>
        \A tx \in Range(DocTxDtls) :
            HasStrd(tx) =>
                LET r == TxRecord(tx) IN
                /\ HasKey(r, "RemittanceInformation", StrdRef(tx))
                /\ "AdditionalRemittanceInformation" \in DOMAIN r <=> HasAddtlChild(tx)
                /\ FullOf(r) = FullOf(_extract_transaction_details(WithoutStrd(tx)))

BalType(b) ==
    IF HasKid(b, "Tp") /\ HasKid(Kid(b, "Tp"), "CdOrPrtry")
    THEN KidText(Kid(Kid(b, "Tp"), "CdOrPrtry"), "Cd")
    ELSE None

StoredBalance(summary, b) ==
    IF BalType(b) = <<"OPBD">> THEN summary.OpeningBalance ELSE summary.ClosingBalance

Hundred == <<"1", "0", "0", ".", "0", "0">>

C7_BalanceHolds(summary, b) ==
    LET amt == KidText(b, "Amt")
        ind == KidText(b, "CdtDbtInd")
    IN  /\ (ind = <<"DBIT">> /\ amt = Hundred) =>
               StoredBalance(summary, b) = <<"-">> \o Hundred
        /\ (ind = <<"DBIT">> /\ amt = <<"a", "b", "c">>) =>
               StoredBalance(summary, b) = amt
        /\ ind # <<"DBIT">> => StoredBalance(summary, b) = amt

(***************************************************************************)
(* C7.  Balance sign in get_statement_info: a balance with indicator DBIT  *)
(* and amount text "100.00" is stored as "-100.00"; with DBIT and a        *)
(* non-numeric amount text it is stored unchanged and nothing is raised;   *)
(* with any other indicator the amount text is stored unchanged.           *)
(***************************************************************************)
C7_BalanceSign ==
    (ret.op = "get_statement_info" /\ DocContainers # <<>>) =>
        /\ ret.exc = "none"
        /\ \A b \in Range(Kids(ExpectedContainers[1], "Bal")) :
              BalType(b) \in {<<"OPBD">>, <<"CLBD">>} =>
                  C7_BalanceHolds(ret.value[1], b)

ContainerIBAN(c) ==
    IF HasKid(c, "Acct") /\ HasKid(Kid(c, "Acct"), "Id")
    THEN KidText(Kid(Kid(c, "Acct"), "Id"), "IBAN")
    ELSE None

ContainerRefs(cs) ==
    UNION {{KidText(e, "AcctSvcrRef") : e \in Range(Kids(cs[c], "Ntry"))} : c \in 1..Len(cs)}

(***************************************************************************)
(* C8.  Container location, for get_transactions and get_statement_info:   *)
(* with one or more Stmt nodes exactly those are the containers; otherwise *)
(* with one or more Rpt nodes exactly those; with neither the operation    *)
(* fails with Camt053ParseError and returns nothing.                       *)
(***************************************************************************)
C8_Containers ==
    ret.op \in {"get_transactions", "get_statement_info"} =>
        IF ExpectedContainers = <<>>
        THEN ret.exc = "Camt053ParseError" /\ ret.value = <<>>
        ELSE /\ ret.exc = "none"
             /\ ret.op = "get_statement_info" =>
                   /\ Len(ret.value) = Len(ExpectedContainers)
                   /\ \A c \in 1..Len(ret.value) :
                         ret.value[c].IBAN = ContainerIBAN(ExpectedContainers[c])
             /\ ret.op = "get_transactions" =>
                   {ret.value[i].TransactionID : i \in 1..Len(ret.value)}
                       = ContainerRefs(ExpectedContainers)

C8_Witness ==
    /\ ret.op = "get_transactions"
    /\ DocStmts # <<>> /\ DocRpts # <<>>
    /\ DocStmts[1].kids # DocRpts[1].kids
    /\ ret.value # <<>>

C8_WitnessRpt ==
    /\ ret.op = "get_statement_info"
    /\ DocStmts = <<>> /\ Len(DocRpts) = 2
    /\ Len(ret.value) = 2

C8_WitnessNone ==
    /\ ret.op = "get_transactions"
    /\ DocStmts = <<>> /\ DocRpts = <<>>
    /\ ret.exc = "Camt053ParseError"

Unlocatable(e) == \E path \in RequiredPaths : findall(e, path) = <<>>

(***************************************************************************)
(* C9.  When TransactionID, Amount, CreditDebitIndicator, BookingDate or   *)
(* ValueDate of some entry cannot be located, get_transactions fails with  *)
(* Camt053ParseError and returns no partial list; no record is emitted     *)
(* without a TransactionID.                                                *)
(***************************************************************************)
C9_RequiredFields ==
    /\ (ret.op = "get_transactions" /\ \E e \in Range(DocEntries) : Unlocatable(e)) =>
           ret.exc = "Camt053ParseError" /\ ret.value = <<>>
    /\ ReturnedFrom("get_transactions") =>
           \A i \in 1..Len(ret.value) :
               /\ "TransactionID" \in DOMAIN ret.value[i]
               /\ ret.value[i].TransactionID # None

DocHeaders == Kids(tree.kids[1], "GrpHdr")

(***************************************************************************)
(* C10.  get_group_header: without a GrpHdr node it returns an empty       *)
(* record; with a header holding MsgId and CreDtTm it returns their texts  *)
(* verbatim as MessageID and CreationDateTime; with a header lacking       *)
(* either it fails with Camt053ParseError and returns no partial record.   *)
(***************************************************************************)
C10_GroupHeader ==
    ret.op = "get_group_header" =>
        IF DocHeaders = <<>>
        THEN ret.exc = "none" /\ DOMAIN ret.value = {}
        ELSE IF HasKid(DocHeaders[1], "MsgId") /\ HasKid(DocHeaders[1], "CreDtTm")
        THEN /\ ret.exc = "none"
             /\ DOMAIN ret.value = {"MessageID", "CreationDateTime"}
             /\ ret.value.MessageID = Kid(DocHeaders[1], "MsgId").text
             /\ ret.value.CreationDateTime = Kid(DocHeaders[1], "CreDtTm").text
        ELSE ret.exc = "Camt053ParseError" /\ DOMAIN ret.value = {}

RecordTag(r) ==
    [ref |-> r.TransactionID,
     tx |-> IF "EndToEndId" \in DOMAIN r THEN r.EndToEndId ELSE None]

GroupingTags(e, g) ==
    LET txs == Kids(g, "TxDtls") IN
    IF txs = <<>> THEN <<[ref |-> KidText(e, "AcctSvcrRef"), tx |-> None]>>
    ELSE [t \in 1..Len(txs) |-> [ref |-> KidText(e, "AcctSvcrRef"), tx |-> TxId(txs[t])]]

EntryTags(e) ==
    LET gs == Kids(e, "NtryDtls") IN
    IF gs = <<>> THEN <<[ref |-> KidText(e, "AcctSvcrRef"), tx |-> None]>>
    ELSE Concat([g \in 1..Len(gs) |-> GroupingTags(e, gs[g])])

ContainerTags(c) ==
    LET es == Kids(c, "Ntry") IN Concat([e \in 1..Len(es) |-> EntryTags(es[e])])

DocumentOrder ==
    Concat([c \in 1..Len(ExpectedContainers) |-> ContainerTags(ExpectedContainers[c])])

(***************************************************************************)
(* C11.  The list of get_transactions is in document order: containers,    *)
(* within a container its entries, within an entry its groupings, within a *)
(* grouping its transaction details; nothing is reordered, dropped or      *)
(* duplicated.  Two entries, one 1-to-1 and one with a grouping of two     *)
(* details, give exactly 3 records in entry-then-detail order.             *)
(***************************************************************************)
C11_DocumentOrder ==
    ReturnedFrom("get_transactions") =>
        [i \in 1..Len(ret.value) |-> RecordTag(ret.value[i])] = DocumentOrder

C11_Witness ==
    /\ ReturnedFrom("get_transactions")
    /\ Len(DocEntries) = 2
    /\ OneToOne(DocEntries[1])
    /\ Len(Kids(Kid(DocEntries[2], "NtryDtls"), "TxDtls")) = 2
    /\ Len(ret.value) = 3
    /\ ret.value[1].TransactionID = KidText(DocEntries[1], "AcctSvcrRef")
    /\ ret.value[3].EndToEndId = TxId(Kids(Kid(DocEntries[2], "NtryDtls"), "TxDtls")[2])

C11_WitnessManyEntries ==
    /\ ReturnedFrom("get_transactions")
    /\ Len(ExpectedContainers) = 2
    /\ Len(Kids(ExpectedContainers[1], "Ntry")) = 3
    /\ Len(Kids(Kids(ExpectedContainers[1], "Ntry")[2], "NtryDtls")) = 2
    /\ Len(ret.value) >= 6

SummaryKeys ==
    {"IBAN", "Currency", "OpeningBalance", "OpeningBalanceDate",
     "ClosingBalance", "ClosingBalanceDate"}

ContainerCurrency(c) ==
    IF HasKid(c, "Acct") THEN KidText(Kid(c, "Acct"), "Ccy") ELSE None

BalsOfType(c, tp) == SelectSeq(Kids(c, "Bal"), LAMBDA b : BalType(b) = tp)

C12_SummaryHolds(summary, c) ==
    /\ DOMAIN summary = SummaryKeys
    /\ summary.IBAN = ContainerIBAN(c)
    /\ summary.Currency = ContainerCurrency(c)
    /\ BalsOfType(c, <<"OPBD">>) = <<>> =>
           summary.OpeningBalance = None /\ summary.OpeningBalanceDate = None
    /\ BalsOfType(c, <<"CLBD">>) = <<>> =>
           summary.ClosingBalance = None /\ summary.ClosingBalanceDate = None

(***************************************************************************)
(* C12.  get_statement_info returns one summary per located container, in  *)
(* container order; every summary has exactly the keys IBAN, Currency,     *)
(* OpeningBalance, OpeningBalanceDate, ClosingBalance, ClosingBalanceDate, *)
(* and a value is None when its source node (account IBAN, account         *)
(* currency, OPBD balance, CLBD balance) is absent from the container.     *)
(***************************************************************************)
C12_Summaries ==
    ReturnedFrom("get_statement_info") =>
        /\ Len(ret.value) = Len(ExpectedContainers)
        /\ \A c \in 1..Len(ExpectedContainers) :
              C12_SummaryHolds(ret.value[c], ExpectedContainers[c])

C12_Witness ==
    /\ ReturnedFrom("get_statement_info")
    /\ Len(ret.value) = 2
    /\ ~HasKid(ExpectedContainers[1], "Acct")
    /\ Kids(ExpectedContainers[1], "Bal") = <<>>
    /\ \A k \in SummaryKeys : ret.value[1][k] = None
    /\ ret.value[2].IBAN = Id("GB33BUKB", <<2>>)
    /\ ret.value[2].OpeningBalance = <<"1000.00">>

C12_WitnessOtherType ==
    /\ ReturnedFrom("get_statement_info")
    /\ Len(Kids(ExpectedContainers[1], "Bal")) = 2
    /\ BalsOfType(ExpectedContainers[1], <<"OPBD">>) = <<>>
    /\ Len(BalsOfType(ExpectedContainers[1], <<"CLBD">>)) = 1
    /\ ret.value[1].Currency = <<"CHF">>
    /\ ret.value[1].OpeningBalanceDate = None
    /\ ret.value[1].ClosingBalanceDate # None

\* one slot per record expected of an entry with groupings: 0 for a
\* grouping without TxDtls, else the position of the TxDtls in its grouping
Slots(e) ==
    LET gs == Kids(e, "NtryDtls") IN
    Concat([g \in 1..Len(gs) |->
               IF Kids(gs[g], "TxDtls") = <<>> THEN <<0>>
               ELSE [t \in 1..Len(Kids(gs[g], "TxDtls")) |-> t]])

(***************************************************************************)
(* C13.  For an entry with k >= 1 groupings (NtryDtls), a grouping without *)
(* any TxDtls contributes exactly one record, the entry's common record    *)
(* alone; the entry yields sum over its groupings of max(1, number of      *)
(* TxDtls in the grouping) records.                                        *)
(***************************************************************************)
C13_EmptyGrouping ==
    ReturnedFrom("get_transactions") =>
        \A c \in Range(DocContainers) : \A e \in Range(Kids(c, "Ntry")) :
            HasKid(e, "NtryDtls") =>
                /\ Len(EntryRecords(e)) = Len(Slots(e))
                /\ \A i \in 1..Len(Slots(e)) :
                      Slots(e)[i] = 0 =>
                          EntryRecords(e)[i] = _extract_common_entry_data(e, c)

C13_Witness ==
    /\ ReturnedFrom("get_transactions")
    /\ \E e \in Range(DocEntries) :
          /\ Len(Kids(e, "NtryDtls")) = 2
          /\ Kids(Kids(e, "NtryDtls")[1], "TxDtls") = <<>>
          /\ HasKid(Kids(e, "NtryDtls")[1], "Btch")
          /\ Len(Kids(Kids(e, "NtryDtls")[2], "TxDtls")) = 2
          /\ Len(EntryRecords(e)) = 3
          /\ "EndToEndId" \notin DOMAIN EntryRecords(e)[1]
          /\ "EndToEndId" \in DOMAIN EntryRecords(e)[2]

C13_WitnessAllEmpty ==
    /\ ReturnedFrom("get_transactions")
    /\ \E e \in Range(DocEntries) :
          /\ Len(Kids(e, "NtryDtls")) = 2
          /\ \A g \in Range(Kids(e, "NtryDtls")) : Kids(g, "TxDtls") = <<>>
          /\ Len(EntryRecords(e)) = 2
          /\ EntryRecords(e)[1] = EntryRecords(e)[2]

\* what one balance node holds: its amount with the sign of its indicator,
\* and its date-time, else its date
NodeAmount(b) == SignedAmount(KidText(b, "Amt"), KidText(b, "CdtDbtInd"))

NodeDate(b) ==
    IF ~HasKid(b, "Dt") THEN None
    ELSE IF HasKid(Kid(b, "Dt"), "DtTm") THEN KidText(Kid(b, "Dt"), "DtTm")
    ELSE KidText(Kid(b, "Dt"), "Dt")

Last(q) == q[Len(q)]

C14_TypeHolds(balance, date, bals) ==
    IF bals = <<>> THEN balance = None /\ date = None
    ELSE balance = NodeAmount(Last(bals)) /\ date = NodeDate(Last(bals))

(***************************************************************************)
(* C14.  Within one container's summary the opening balance and its date   *)
(* are those of the last Bal node of type OPBD, the closing balance and    *)
(* its date those of the last Bal node of type CLBD (last write wins), and *)
(* a Bal node of another or of no type changes no field of the summary.    *)
(***************************************************************************)
C14_LastWriteWins ==
    ReturnedFrom("get_statement_info") =>
        \A c \in 1..Len(ExpectedContainers) :
            LET summary == ret.value[c]
                container == ExpectedContainers[c]
            IN  /\ C14_TypeHolds(summary.OpeningBalance, summary.OpeningBalanceDate,
                                 BalsOfType(container, <<"OPBD">>))
                /\ C14_TypeHolds(summary.ClosingBalance, summary.ClosingBalanceDate,
                                 BalsOfType(container, <<"CLBD">>))
                /\ summary.IBAN = ContainerIBAN(container)
                /\ summary.Currency = ContainerCurrency(container)

C14_Witness ==
    /\ ReturnedFrom("get_statement_info")
    /\ LET bals == Kids(ExpectedContainers[1], "Bal") IN
       /\ Len(bals) = 2
       /\ BalType(bals[1]) = <<"OPBD">> /\ BalType(bals[2]) = <<"OPBD">>
       /\ KidText(bals[1], "Amt") = Hundred
       /\ KidText(bals[2], "Amt") = <<"1", ".", "5">>
       /\ ret.value[1].OpeningBalance = <<"-", "1", ".", "5">>
       /\ ret.value[1].OpeningBalanceDate = <<"2025-07-31", "T18:56:25">>
       /\ ret.value[1].ClosingBalance = None

C14_WitnessOtherType ==
    /\ ReturnedFrom("get_statement_info")
    /\ LET bals == Kids(ExpectedContainers[1], "Bal") IN
       /\ Len(bals) = 2
       /\ BalType(bals[1]) = <<"CLBD">> /\ BalType(bals[2]) \in {None, <<"PRCD">>}
       /\ KidText(bals[1], "Amt") = Hundred
       /\ KidText(bals[2], "Amt") = <<"1", ".", "5">>
       /\ ret.value[1].ClosingBalance = Hundred
       /\ ret.value[1].ClosingBalanceDate = <<"2025-07-31">>
       /\ ret.value[1].OpeningBalance = None

C15_DateHolds(stored, b) ==
    LET dates == Kids(b, "Dt") IN
    IF dates # <<>> /\ HasKid(dates[1], "DtTm")
    THEN stored = Kid(dates[1], "DtTm").text
    ELSE IF dates # <<>> /\ HasKid(dates[1], "Dt")
    THEN stored = Kid(dates[1], "Dt").text
    ELSE stored = None

(***************************************************************************)
(* C15.  The date stored for a balance node is the text of its date-time   *)
(* child (DtTm) when one exists, whether or not a plain date child (Dt)    *)
(* also exists; otherwise the text of the plain date child; otherwise      *)
(* nothing (None).                                                         *)
(***************************************************************************)
C15_BalanceDate ==
    ReturnedFrom("get_statement_info") =>
        \A c \in 1..Len(ExpectedContainers) :
            LET opening == BalsOfType(ExpectedContainers[c], <<"OPBD">>)
                closing == BalsOfType(ExpectedContainers[c], <<"CLBD">>)
            IN  /\ opening # <<>> =>
                       C15_DateHolds(ret.value[c].OpeningBalanceDate, Last(opening))
                /\ closing # <<>> =>
                       C15_DateHolds(ret.value[c].ClosingBalanceDate, Last(closing))

C15_Witness ==
    /\ ReturnedFrom("get_statement_info")
    /\ LET bals == Kids(ExpectedContainers[1], "Bal") IN
       /\ Len(bals) = 1 /\ BalType(bals[1]) = <<"CLBD">>
       /\ HasKid(bals[1], "Dt")
       /\ HasKid(Kid(bals[1], "Dt"), "Dt") /\ HasKid(Kid(bals[1], "Dt"), "DtTm")
       /\ ret.value[1].ClosingBalanceDate = <<"2025-07-31", "T18:56:25">>

C15_WitnessDateOnly ==
    /\ ReturnedFrom("get_statement_info")
    /\ LET bals == Kids(ExpectedContainers[1], "Bal") IN
       /\ Len(bals) = 1 /\ BalType(bals[1]) = <<"OPBD">>
       /\ HasKid(bals[1], "Dt")
       /\ HasKid(Kid(bals[1], "Dt"), "Dt") /\ ~HasKid(Kid(bals[1], "Dt"), "DtTm")
       /\ ret.value[1].OpeningBalanceDate = <<"2025-07-31">>

C15_WitnessNoDate ==
    /\ ReturnedFrom("get_statement_info")
    /\ LET bals == Kids(ExpectedContainers[1], "Bal") IN
       /\ Len(bals) = 1 /\ BalType(bals[1]) = <<"OPBD">>
       /\ ~HasKid(bals[1], "Dt")
       /\ KidText(bals[1], "Amt") = Hundred
       /\ ret.value[1].OpeningBalance = Hundred
       /\ ret.value[1].OpeningBalanceDate = None

(***************************************************************************)
(* C16.  Status of an entry's records: the text of the status node's coded *)
(* child (Sts/Cd) when the status node has one; the status node's own text *)
(* when it has no coded child; absent (no Status key) when the entry has   *)
(* no status node.                                                         *)
(***************************************************************************)
C16_Status ==
    ReturnedFrom("get_transactions") =>
        \A e \in Range(DocEntries) : \A r \in Range(EntryRecords(e)) :
            IF ~HasKid(e, "Sts") THEN "Status" \notin DOMAIN r
            ELSE IF HasKid(Kid(e, "Sts"), "Cd")
            THEN "Status" \in DOMAIN r /\ r.Status = Kid(Kid(e, "Sts"), "Cd").text
            ELSE "Status" \in DOMAIN r /\ r.Status = Kid(e, "Sts").text

RecordIBAN(r) == IF "AccountIBAN" \in DOMAIN r THEN r.AccountIBAN ELSE None

\* the IBAN nodes below the entry's own transaction details
PartyIBANs(e) ==
    {KidText(Kid(a, "Id"), "IBAN") :
        a \in UNION {Range(Kids(p, "CdtrAcct")) \cup Range(Kids(p, "DbtrAcct")) :
                        p \in UNION {Range(Kids(tx, "RltdPties")) :
                                        tx \in UNION {Range(Kids(g, "TxDtls")) :
                                                         g \in Range(Kids(e, "NtryDtls"))}}}}

(***************************************************************************)
(* C17.  The AccountIBAN of every record of get_transactions is the        *)
(* account IBAN of the container enclosing the record's entry, never that  *)
(* of another container nor one of the entry's own creditor or debtor      *)
(* account, and equals the IBAN get_statement_info reports for the same    *)
(* container.                                                              *)
(***************************************************************************)
C17_AccountScope ==
    ReturnedFrom("get_transactions") =>
        \A c \in 1..Len(ExpectedContainers) :
            \A e \in Range(Kids(ExpectedContainers[c], "Ntry")) :
                \A r \in Range(EntryRecords(e)) :
                    /\ RecordIBAN(r) = ContainerIBAN(ExpectedContainers[c])
                    /\ RecordIBAN(r) \notin PartyIBANs(e)
                    /\ RecordIBAN(r) = get_statement_info.value[c].IBAN

C17_Witness ==
    /\ ReturnedFrom("get_transactions")
    /\ Len(ExpectedContainers) = 2
    /\ Len(ret.value) = 3
    /\ ret.value[1].AccountIBAN = Id("GB33BUKB", <<1>>)
    /\ ret.value[3].AccountIBAN = Id("GB33BUKB", <<2>>)
    /\ ret.value[1].AccountIBAN # ret.value[3].AccountIBAN
    /\ PartyIBANs(DocEntries[1]) = {<<"DE00CDTR">>}

C17_WitnessNoAccount ==
    /\ ReturnedFrom("get_transactions")
    /\ Len(ExpectedContainers) = 2
    /\ ~HasKid(ExpectedContainers[1], "Acct")
    /\ PartyIBANs(DocEntries[1]) = {<<"DE00CDTR">>}
    /\ RecordIBAN(ret.value[1]) = None
    /\ RecordIBAN(ret.value[2]) = Id("GB33BUKB", <<2>>)

====
